---- MODULE Spec2Model ----
(***************************************************************************)
(* Seq2SeqModel (seq2seq_model.py): the bucketed step controller of a      *)
(* variational sequence-to-sequence model.  The model keeps the state the  *)
(* class owns (global_step, kl_rate, Lambda, the trainable parameters and  *)
(* their moving-average shadow), the construction arguments, the random    *)
(* source get_batch draws from, and a record of the last call: what it     *)
(* raised, whether it reached session.run, and the feed, the fetch list    *)
(* and the value it returned.                                              *)
(*                                                                         *)
(* Conventions.  Bucket ids are 1-based here (bucket_id + 1 of the code);  *)
(* placeholder indices keep the code's 0-based numbering.  A placeholder,  *)
(* a graph expression and a fed or returned value are all written as a     *)
(* triple <<name, i, j>>.                                                  *)
(***************************************************************************)
EXTENDS Integers, Sequences, FiniteSets, TLC

VARIABLES cfg, graph, embedding, global_step, kl_rate, Lambda, params, shadow, rng,
          call, hist

vars ==
  <<cfg, graph, embedding, global_step, kl_rate, Lambda, params, shadow, rng, call, hist>>

model_state == <<embedding, global_step, kl_rate, Lambda, params, shadow>>

(* ------------------------------ bounds -------------------------------- *)
MaxSteps == 2
MaxRise == 2
MaxHalve == 2
MaxDelta == 1
MaxInLen == 3
MaxOutLen == 3
batch_size == 2

(* ------------------------- construction arguments --------------------- *)
buckets == << <<1, 2>>, <<2, 3>> >>

BucketIds == 1..Len(buckets)

encoder_size(b) == buckets[b][1]

decoder_size(b) == buckets[b][2]

kl_rate_rise_factor == 3

Lambda0 == 2

PAD_ID == 0

GO_ID == 1

Configs ==
  [dnn_in_between : BOOLEAN, probabilistic : BOOLEAN, forward_only : BOOLEAN,
   adamax : BOOLEAN, Lambda_annealing : BOOLEAN, word_dropout : BOOLEAN,
   annealing : BOOLEAN, lower_bound_KL : BOOLEAN]

(* __init__ returns a model unless it builds the backward pass of a        *)
(* probabilistic model without the latent bridge: the loop over the        *)
(* buckets then reads self.KL_divergences, which was never assigned.       *)
Constructible(c) == (c.probabilistic /\ ~c.forward_only) => c.dnn_in_between

(* The defaults of annealing and lower_bound_KL.                           *)
DefaultKL(c) == ~c.annealing /\ c.lower_bound_KL

(* ------------------------- values and placeholders -------------------- *)
NoneV == <<"None", 0, 0>>

Zeros1 == <<"zeros", batch_size, 0>>

Zeros2 == <<"zeros", batch_size, 1>>

UnkFill == <<"full_UNK", batch_size, 0>>

EncArg(l) == <<"encoder_inputs", l, 0>>

DecArg(l) == <<"decoder_inputs", l, 0>>

WeightArg(l) == <<"target_weights", l, 0>>

MeanArg(m) == <<"means_arg", m, 0>>

LogvarArg(v) == <<"logvars_arg", v, 0>>

EncSlot(l) == <<"encoder", l, 0>>

DecSlot(l) == <<"decoder", l, 0>>

WeightSlot(l) == <<"weight", l, 0>>

ReplaceSlot == <<"replace_input", 0, 0>>

MeansT(b) == <<"means", b, 0>>

LogvarsT(b) == <<"logvars", b, 0>>

OutputsT(b, l) == <<"outputs", b, l>>

LossesT(b) == <<"losses", b, 0>>

KLT(b) == <<"KL_divergences", b, 0>>

NormT(b) == <<"gradient_norms", b, 0>>

UpdateT(b) == <<"updates", b, 0>>

(* --------------------- attributes set by __init__ --------------------- *)
(* means, logvars and KL_divergences are assigned in the dnn_in_between    *)
(* branch only; gradient_norms and updates only when the backward pass is  *)
(* built; Lambda_divide_by_two_op only under Lambda_annealing.             *)
HasAttr(c, name) ==
  CASE name \in {"means", "logvars", "KL_divergences"} -> c.dnn_in_between
    [] name \in {"gradient_norms", "updates"} -> ~c.forward_only
    [] name = "Lambda_divide_by_two_op" -> c.Lambda_annealing
    [] OTHER -> TRUE

(* ------------------ the graph the buckets are wired into -------------- *)
EncSlots(b) == {EncSlot(l) : l \in 0..(encoder_size(b) - 1)}

DecSlots(b) == {DecSlot(l) : l \in 0..(decoder_size(b) - 1)}

WeightSlots(b) == {WeightSlot(l) : l \in 0..(decoder_size(b) - 1)}

(* outputs[b]: one expression per decoder position of bucket b.            *)
outputs(b) == [l \in 1..decoder_size(b) |-> OutputsT(b, l - 1)]

(* The placeholders an expression reads; a fed tensor cuts what is behind  *)
(* it.                                                                     *)
LatentDeps(b, fed) ==
  IF MeansT(b) \in fed /\ LogvarsT(b) \in fed THEN {} ELSE EncSlots(b)

OutputDeps(c, b, fed) ==
  LatentDeps(b, fed) \cup DecSlots(b)
    \cup (IF c.word_dropout THEN {ReplaceSlot} ELSE {})

LossDeps(c, b, fed) ==
  OutputDeps(c, b, fed) \cup {DecSlot(l) : l \in 1..decoder_size(b)} \cup WeightSlots(b)

Deps(c, x, fed) ==
  CASE x[1] \in {"means", "logvars"} -> EncSlots(x[2])
    [] x[1] = "KL_divergences" -> LatentDeps(x[2], fed)
    [] x[1] = "outputs" -> OutputDeps(c, x[2], fed)
    [] OTHER -> LossDeps(c, x[2], fed)

(* ------------------------------ session.run --------------------------- *)
Fed(feed) == {p[1] : p \in feed}

Unfed(c, fetch, feed) ==
  UNION {Deps(c, fetch[i], Fed(feed)) : i \in 1..Len(fetch)} \ Fed(feed)

Evaluated(fetch) == [i \in 1..Len(fetch) |-> fetch[i]]

RunsUpdate(fetch) == \E i \in 1..Len(fetch) : fetch[i][1] = "updates"

(* The outcome of a call: what it raised, whether session.run was issued,  *)
(* what was fed and fetched, and the value returned.                       *)
Raise(kind, msg) ==
  [raised |-> kind, msg |-> msg, ran |-> FALSE, feed |-> {}, fetch |-> <<>>,
   ret |-> <<>>]

Run(c, fetch, feed, ret) ==
  IF Unfed(c, fetch, feed) = {}
  THEN [raised |-> "none", msg |-> NoneV, ran |-> TRUE, feed |-> feed,
        fetch |-> fetch, ret |-> ret]
  ELSE [raised |-> "InvalidArgumentError",
        msg |-> CHOOSE s \in Unfed(c, fetch, feed) :
                  \A t \in Unfed(c, fetch, feed) : s[2] <= t[2],
        ran |-> TRUE, feed |-> feed, fetch |-> fetch, ret |-> <<>>]


(* A variant of the length checks that forgets target_weights.             *)
StepShapeErrorNoWeights(b, e, d, w) ==
  IF e # encoder_size(b) THEN <<"Encoder", e, encoder_size(b)>>
  ELSE IF d # decoder_size(b) THEN <<"Decoder", d, decoder_size(b)>>
  ELSE NoneV

(* ---------------------------------- step ------------------------------ *)
(* The three length checks, in the code's order: the first that fails      *)
(* names the error, NoneV when all pass.                                   *)
StepShapeError(b, e, d, w) ==
  IF e # encoder_size(b) THEN <<"Encoder", e, encoder_size(b)>>
  ELSE IF d # decoder_size(b) THEN <<"Decoder", d, decoder_size(b)>>
  ELSE IF w # decoder_size(b) THEN <<"Weights", w, decoder_size(b)>>
  ELSE NoneV

StepFeed(c, b) ==
  {<<EncSlot(l), EncArg(l)>> : l \in 0..(encoder_size(b) - 1)}
    \cup {<<DecSlot(l), DecArg(l)>> : l \in 0..(decoder_size(b) - 1)}
    \cup {<<WeightSlot(l), WeightArg(l)>> : l \in 0..(decoder_size(b) - 1)}
    \cup (IF c.word_dropout THEN {<<ReplaceSlot, UnkFill>>} ELSE {})
    \cup {<<DecSlot(decoder_size(b)), Zeros1>>}
    \cup (IF ~c.probabilistic THEN {<<LogvarsT(b), Zeros2>>} ELSE {})

(* A variant whose inference-mode fetch list also holds the update.       *)
StepFetchAlwaysUpdates(b, forward_only) ==
  <<UpdateT(b), NormT(b), LossesT(b), KLT(b)>>

StepFetch(b, forward_only) ==
  IF ~forward_only
  THEN <<UpdateT(b), NormT(b), LossesT(b), KLT(b)>>
  ELSE <<LossesT(b), KLT(b)>> \o outputs(b)

StepReturn(fetch, forward_only) ==
  LET out == Evaluated(fetch) IN
  IF ~forward_only
  THEN << <<out[2]>>, <<out[3]>>, <<out[4]>>, <<NoneV>> >>
  ELSE << <<NoneV>>, <<out[1]>>, <<out[2]>>, SubSeq(out, 3, Len(out)) >>

(* The attribute step reads that __init__ never assigned, "" when none.    *)
StepMissingAttr(c, forward_only) ==
  IF ~c.probabilistic /\ ~HasAttr(c, "logvars") THEN "logvars"
  ELSE IF ~forward_only /\ ~HasAttr(c, "updates") THEN "updates"
  ELSE IF ~HasAttr(c, "KL_divergences") THEN "KL_divergences"
  ELSE ""

step(c, b, forward_only, e, d, w) ==
  IF StepShapeError(b, e, d, w) # NoneV
  THEN Raise("ValueError", StepShapeError(b, e, d, w))
  ELSE IF StepMissingAttr(c, forward_only) # ""
  THEN Raise("AttributeError", <<StepMissingAttr(c, forward_only), 0, 0>>)
  ELSE Run(c, StepFetch(b, forward_only), StepFeed(c, b),
           StepReturn(StepFetch(b, forward_only), forward_only))

(* ----------------------------- encode_to_latent ----------------------- *)
EncodeShapeError(b, e) ==
  IF e # encoder_size(b) THEN <<"Encoder", e, encoder_size(b)>> ELSE NoneV

EncodeFeed(b) == {<<EncSlot(l), EncArg(l)>> : l \in 0..(encoder_size(b) - 1)}

(* output_feed = [self.means, self.logvars]: the whole per-bucket lists.   *)
EncodeFetch(b) ==
  [i \in BucketIds |-> MeansT(i)] \o [i \in BucketIds |-> LogvarsT(i)]

EncodeReturn(b) ==
  << [i \in BucketIds |-> MeansT(i)], [i \in BucketIds |-> LogvarsT(i)] >>

encode_to_latent(c, b, e) ==
  IF EncodeShapeError(b, e) # NoneV
  THEN Raise("ValueError", EncodeShapeError(b, e))
  ELSE IF ~HasAttr(c, "means")
  THEN Raise("AttributeError", <<"means", 0, 0>>)
  ELSE Run(c, EncodeFetch(b), EncodeFeed(b), EncodeReturn(b))


(* A variant that feeds the caller's logvars whatever the configuration.   *)
DecodeLogvarFeedAlways(c, b, logvars) == <<LogvarsT(b), LogvarArg(logvars)>>

(* ---------------------------- decode_from_latent ---------------------- *)
DecodeLogvarFeed(c, b, logvars) ==
  IF ~c.probabilistic THEN <<LogvarsT(b), Zeros2>>
  ELSE <<LogvarsT(b), LogvarArg(logvars)>>

DecodeFeed(c, b, means, logvars) ==
  {<<MeansT(b), MeanArg(means)>>}
    \cup {DecodeLogvarFeed(c, b, logvars)}
    \cup {<<DecSlot(l), DecArg(l)>> : l \in 0..(decoder_size(b) - 1)}
    \cup {<<WeightSlot(l), WeightArg(l)>> : l \in 0..(decoder_size(b) - 1)}
    \cup (IF c.word_dropout THEN {<<ReplaceSlot, UnkFill>>} ELSE {})
    \cup {<<DecSlot(decoder_size(b)), Zeros1>>}

DecodeFetch(b) == outputs(b)

(* decoder_inputs[l] and target_weights[l] are read for l < decoder_size   *)
(* with no length check: the first index past the end of either list       *)
(* raises IndexError; longer lists are read only up to decoder_size.       *)
DecodeIndexError(b, d, w) ==
  IF d < decoder_size(b) /\ d <= w THEN <<"decoder_inputs", d, 0>>
  ELSE IF w < decoder_size(b) THEN <<"target_weights", w, 0>>
  ELSE NoneV

decode_from_latent(c, b, means, logvars, d, w) ==
  IF ~HasAttr(c, "means")
  THEN Raise("AttributeError", <<"means", 0, 0>>)
  ELSE IF DecodeIndexError(b, d, w) # NoneV
  THEN Raise("IndexError", DecodeIndexError(b, d, w))
  ELSE Run(c, DecodeFetch(b), DecodeFeed(c, b, means, logvars),
           <<Evaluated(DecodeFetch(b))>>)

(* -------------------------------- get_batch --------------------------- *)
(* The corpus: for every bucket the same pool of (input, output) pairs,    *)
(* one for each pair of lengths, with tokens that tell their position,     *)
(* and two pairs that hold the PAD id among their tokens.                  *)
InTokens(k) == [i \in 1..k |-> 10 + i]

OutTokens(m) == [j \in 1..m |-> 20 + j]

PadExamples ==
  << << <<PAD_ID, 12>>, <<PAD_ID, 22>> >>, << <<11, PAD_ID>>, <<21, PAD_ID, 23>> >> >>

Pool ==
  [i \in 1..((MaxInLen + 1) * (MaxOutLen + 1)) |->
     << InTokens((i - 1) \div (MaxOutLen + 1)), OutTokens((i - 1) % (MaxOutLen + 1)) >>]
    \o PadExamples

data == [b \in BucketIds |-> Pool]

(* [PAD_ID] * n: the empty list when n is not positive.                    *)
Pad(n) == IF n > 0 THEN [i \in 1..n |-> PAD_ID] ELSE <<>>

Reversed(s) == [i \in 1..Len(s) |-> s[Len(s) + 1 - i]]


(* A variant that reverses the input before padding it.                    *)
EncoderRowPadAfter(encoder_input, size) ==
  Reversed(encoder_input) \o Pad(size - Len(encoder_input))

(* list(reversed(encoder_input + encoder_pad))                             *)
EncoderRow(encoder_input, size) ==
  Reversed(encoder_input \o Pad(size - Len(encoder_input)))


(* A variant that pads the output without the GO symbol in front.          *)
DecoderRowNoGo(decoder_input, size) ==
  decoder_input \o Pad(size - Len(decoder_input))

(* [GO_ID] + decoder_input + [PAD_ID] * decoder_pad_size                   *)
DecoderRow(decoder_input, size) ==
  <<GO_ID>> \o decoder_input \o Pad(size - Len(decoder_input) - 1)


(* A variant that reads the decoder input itself, not the shifted target.  *)
BatchWeightUnshifted(row, length_idx, size) ==
  IF length_idx = size - 1 THEN 0
  ELSE IF row[length_idx + 1] = PAD_ID THEN 0
  ELSE 1

(* The weight of position length_idx (0-based) of one example's row.       *)
BatchWeight(row, length_idx, size) ==
  IF length_idx = size - 1 THEN 0
  ELSE IF row[length_idx + 2] = PAD_ID THEN 0
  ELSE 1

(* random.choice(data[bucket_id]) for each of the batch_size draws.        *)
Sampled(b, draws) == [k \in 1..batch_size |-> data[b][draws[k]]]

get_batch(b, draws) ==
  LET chosen == Sampled(b, draws)
      enc == [k \in 1..batch_size |-> EncoderRow(chosen[k][1], encoder_size(b))]
      dec == [k \in 1..batch_size |-> DecoderRow(chosen[k][2], decoder_size(b))]
  IN [encoder_inputs |->
        [l \in 1..encoder_size(b) |-> [k \in 1..batch_size |-> enc[k][l]]],
      decoder_inputs |->
        [l \in 1..decoder_size(b) |-> [k \in 1..batch_size |-> dec[k][l]]],
      target_weights |->
        [l \in 1..decoder_size(b) |->
           [k \in 1..batch_size |-> BatchWeight(dec[k], l - 1, decoder_size(b))]],
      sampled |-> chosen]

NoBatch ==
  [encoder_inputs |-> <<>>, decoder_inputs |-> <<>>, target_weights |-> <<>>,
   sampled |-> <<>>]


(* A variant that is not handed the global step.                           *)
apply_gradients_no_step(st) == [st EXCEPT !.params = @ + 1]

(* ------------------------- the optimizer and the triggers ------------- *)
(* optimizer.apply_gradients(..., global_step=self.global_step)            *)
apply_gradients(st) ==
  [st EXCEPT !.global_step = @ + 1, !.params = @ + 1]

(* Under adamax the update is grouped with the moving-average update.      *)
TrainOp(c, st) ==
  IF c.adamax THEN [apply_gradients(st) EXCEPT !.shadow = @ + 1]
  ELSE apply_gradients(st)


(* A variant that assigns the factor instead of adding it.                 *)
kl_rate_rise_assign(k) == kl_rate_rise_factor

kl_rate_rise_op(k) == k + kl_rate_rise_factor

Lambda_divide_by_two_op(L) == [num |-> L.num, den |-> L.den * 2]

(* --------------------- the tables __init__ builds --------------------- *)
(* A variant that looks at lower_bound_KL alone.                           *)
kl_f_by_lower_bound(c) ==
  IF ~c.lower_bound_KL THEN "KL_divergence" ELSE "lower_bounded_kl_f"

(* kl_f: the closed-form estimator under annealing without the lower       *)
(* bound, the lower-bounded one otherwise.                                 *)
kl_f(c) ==
  IF c.annealing /\ ~c.lower_bound_KL THEN "KL_divergence" ELSE "lower_bounded_kl_f"

(* A variant that adds the divergence unscaled under annealing too.        *)
total_loss_unannealed(c, b) ==
  IF c.probabilistic
  THEN <<[rate |-> "one", expr |-> LossesT(b)], [rate |-> "one", expr |-> KLT(b)]>>
  ELSE <<[rate |-> "one", expr |-> LossesT(b)]>>

(* The loss whose gradients bucket b's update clips and applies, as the    *)
(* terms of a sum: each an expression and the rate that multiplies it.     *)
total_loss(c, b) ==
  IF c.probabilistic
  THEN IF c.annealing
       THEN <<[rate |-> "one", expr |-> LossesT(b)], [rate |-> "kl_rate", expr |-> KLT(b)]>>
       ELSE <<[rate |-> "one", expr |-> LossesT(b)], [rate |-> "one", expr |-> KLT(b)]>>
  ELSE <<[rate |-> "one", expr |-> LossesT(b)]>>

(* The per-bucket tables; a table __init__ does not assign is empty.       *)
Graph(c) ==
  [kl_f |-> kl_f(c),
   outputs |-> [b \in BucketIds |-> outputs(b)],
   losses |-> [b \in BucketIds |-> LossesT(b)],
   KL_divergences |->
     IF c.dnn_in_between
     THEN [b \in BucketIds |-> [expr |-> KLT(b), estimator |-> kl_f(c)]]
     ELSE <<>>,
   gradient_norms |->
     IF ~c.forward_only
     THEN [b \in BucketIds |-> [expr |-> NormT(b), of |-> total_loss(c, b)]]
     ELSE <<>>,
   updates |->
     IF ~c.forward_only
     THEN [b \in BucketIds |->
             [expr |-> UpdateT(b), of |-> total_loss(c, b), with_ema |-> c.adamax]]
     ELSE <<>>]

(* enc_embedding_init_op, dec_embedding_init_op: assign the fed table.     *)
embedding_init_op(emb, table, value) == [emb EXCEPT ![table] = value]

EmbeddingInit(table, value) ==
  [raised |-> "none", msg |-> NoneV, ran |-> TRUE,
   feed |-> {<< <<table, 0, 1>>, <<"pretrained", value, 0>> >>},
   fetch |-> << <<table, 0, 2>> >>, ret |-> <<>>]

(* ------------------------------- the state ---------------------------- *)
Call(op, b, forward_only, lens, means, logvars, r, batch) ==
  [op |-> op, bucket_id |-> b, forward_only |-> forward_only, lens |-> lens,
   means |-> means, logvars |-> logvars, raised |-> r.raised, msg |-> r.msg,
   ran |-> r.ran, feed |-> r.feed, fetch |-> r.fetch, ret |-> r.ret,
   batch |-> batch]

Returned == [raised |-> "none", msg |-> NoneV, ran |-> FALSE, feed |-> {},
             fetch |-> <<>>, ret |-> <<>>]

Triggered(op) == [raised |-> "none", msg |-> NoneV, ran |-> TRUE, feed |-> {},
                  fetch |-> << <<op, 0, 0>> >>, ret |-> <<>>]

InitModel(c, tape) ==
  /\ cfg = c
  /\ graph = Graph(c)
  /\ embedding = [enc_embedding |-> 0, dec_embedding |-> 0]
  /\ global_step = 0
  /\ kl_rate = 0
  /\ Lambda = [num |-> Lambda0, den |-> 1]
  /\ params = 0
  /\ shadow = 0
  /\ rng = tape
  /\ call = Call("init", 0, FALSE, <<0, 0, 0>>, 0, 0, Returned, NoBatch)
  /\ hist = [steps |-> 0, rises |-> 0, halvings |-> 0]

(* ------------------------------- the actions -------------------------- *)
Step(b, forward_only, e, d, w) ==
  \E r \in {step(cfg, b, forward_only, e, d, w)} :
  LET upd == r.raised = "none" /\ RunsUpdate(r.fetch)
      st == [global_step |-> global_step, params |-> params, shadow |-> shadow]
      nx == IF upd THEN TrainOp(cfg, st) ELSE st
  IN /\ upd => global_step < MaxSteps
     /\ call' = Call("step", b, forward_only, <<e, d, w>>, 0, 0, r, NoBatch)
     /\ global_step' = nx.global_step
     /\ params' = nx.params
     /\ shadow' = nx.shadow
     /\ hist' = [hist EXCEPT
                   !.steps = IF r.raised = "none" /\ ~forward_only THEN @ + 1 ELSE @]
     /\ UNCHANGED <<cfg, graph, embedding, kl_rate, Lambda, rng>>

EncodeToLatent(b, e) ==
  /\ call' = Call("encode_to_latent", b, FALSE, <<e, 0, 0>>, 0, 0,
                  encode_to_latent(cfg, b, e), NoBatch)
  /\ UNCHANGED <<cfg, graph, embedding, global_step, kl_rate, Lambda, params, shadow, rng, hist>>

DecodeFromLatent(b, means, logvars, d, w) ==
  /\ call' = Call("decode_from_latent", b, FALSE, <<0, d, w>>, means, logvars,
                  decode_from_latent(cfg, b, means, logvars, d, w), NoBatch)
  /\ UNCHANGED <<cfg, graph, embedding, global_step, kl_rate, Lambda, params, shadow, rng, hist>>

GetBatch(b) ==
  /\ Len(rng) >= batch_size
  /\ call' = Call("get_batch", b, FALSE, <<0, 0, 0>>, 0, 0, Returned,
                  get_batch(b, SubSeq(rng, 1, batch_size)))
  /\ rng' = SubSeq(rng, batch_size + 1, Len(rng))
  /\ UNCHANGED <<cfg, graph, embedding, global_step, kl_rate, Lambda, params, shadow, hist>>

KlRateRise ==
  /\ hist.rises < MaxRise
  /\ kl_rate' = kl_rate_rise_op(kl_rate)
  /\ call' = Call("kl_rate_rise", 0, FALSE, <<0, 0, 0>>, 0, 0,
                  Triggered("kl_rate_rise_op"), NoBatch)
  /\ hist' = [hist EXCEPT !.rises = @ + 1]
  /\ UNCHANGED <<cfg, graph, embedding, global_step, Lambda, params, shadow, rng>>

LambdaHalve ==
  /\ HasAttr(cfg, "Lambda_divide_by_two_op")
  /\ hist.halvings < MaxHalve
  /\ Lambda' = Lambda_divide_by_two_op(Lambda)
  /\ call' = Call("Lambda_divide_by_two", 0, FALSE, <<0, 0, 0>>, 0, 0,
                  Triggered("Lambda_divide_by_two_op"), NoBatch)
  /\ hist' = [hist EXCEPT !.halvings = @ + 1]
  /\ UNCHANGED <<cfg, graph, embedding, global_step, kl_rate, params, shadow, rng>>

LoadEmbedding(table, value) ==
  /\ embedding' = embedding_init_op(embedding, table, value)
  /\ call' = Call(table, 0, FALSE, <<0, 0, 0>>, 0, 0, EmbeddingInit(table, value),
                  NoBatch)
  /\ UNCHANGED <<cfg, graph, global_step, kl_rate, Lambda, params, shadow, rng, hist>>

(* ------------------------- the callers' arguments --------------------- *)
Signs == {-1, 0, 1}

(* Lengths at, below and above the bucket's, in every combination.         *)
WideLens(b) ==
  {t \in {<<encoder_size(b) + x * dl, decoder_size(b) + y * dl, decoder_size(b) + z * dl>> :
            x \in Signs, y \in Signs, z \in Signs, dl \in 1..MaxDelta} :
     t[1] >= 0 /\ t[2] >= 0 /\ t[3] >= 0}

(* The bucket's lengths, and each one wrong in turn.                       *)
NarrowLens(b) ==
  {<<encoder_size(b), decoder_size(b), decoder_size(b)>>,
   <<encoder_size(b) - 1, decoder_size(b), decoder_size(b)>>,
   <<encoder_size(b), decoder_size(b) + 1, decoder_size(b)>>,
   <<encoder_size(b), decoder_size(b), decoder_size(b) - 1>>}

LatentArgs == {1, 2}

Calls(Lens, Latents) ==
  \/ \E b \in BucketIds : \E forward_only \in BOOLEAN, t \in Lens[b] :
       Step(b, forward_only, t[1], t[2], t[3])
  \/ \E b \in BucketIds : \E e \in {t[1] : t \in Lens[b]} : EncodeToLatent(b, e)
  \/ \E b \in BucketIds : \E dw \in {<<t[2], t[3]>> : t \in Lens[b]} :
       \E means \in Latents, logvars \in Latents :
         DecodeFromLatent(b, means, logvars, dw[1], dw[2])

(* ---------------------------- specifications -------------------------- *)
(* Spec: a model under every combination of the construction arguments     *)
(* that decide what a call changes, driven by every operation and both     *)
(* triggers.                                                               *)
Init ==
  \E c \in {x \in Configs : Constructible(x) /\ DefaultKL(x) /\ ~x.word_dropout} :
    InitModel(c, [k \in 1..batch_size |-> k + 5])

Next ==
  \/ Calls([b \in BucketIds |-> NarrowLens(b)], {1})
  \/ \E b \in BucketIds : GetBatch(b)
  \/ KlRateRise
  \/ LambdaHalve

Spec == Init /\ [][Next]_vars

(* SpecCalls: the three graph-evaluating entry points under every          *)
(* combination of argument lengths around the bucket's.                    *)
InitCalls ==
  \E c \in {x \in Configs :
              Constructible(x) /\ DefaultKL(x) /\ ~x.adamax /\ ~x.Lambda_annealing} :
    InitModel(c, <<>>)

NextCalls == Calls([b \in BucketIds |-> WideLens(b)], LatentArgs)

SpecCalls == InitCalls /\ [][NextCalls]_vars

(* SpecBatch: get_batch over every draw of batch_size examples.            *)
InitBatch ==
  \E tape \in [1..batch_size -> 1..Len(Pool)] :
    InitModel([dnn_in_between |-> TRUE, probabilistic |-> TRUE, forward_only |-> FALSE,
               adamax |-> FALSE, Lambda_annealing |-> FALSE, word_dropout |-> FALSE,
               annealing |-> FALSE, lower_bound_KL |-> TRUE],
              tape)

NextBatch == \E b \in BucketIds : GetBatch(b)

SpecBatch == InitBatch /\ [][NextBatch]_vars

(* SpecParams: every call and the two embedding loads, on a model built    *)
(* with the default divergence options.                                    *)
PretrainedTables == {1}

InitParams ==
  \E c \in {x \in Configs : Constructible(x) /\ DefaultKL(x) /\ ~x.word_dropout
                                /\ ~x.Lambda_annealing} :
    InitModel(c, [k \in 1..batch_size |-> k + 5])

NextParams ==
  \/ Calls([b \in BucketIds |-> NarrowLens(b)], {1})
  \/ \E b \in BucketIds : GetBatch(b)
  \/ \E table \in {"enc_embedding", "dec_embedding"}, value \in PretrainedTables :
       LoadEmbedding(table, value)

SpecParams == InitParams /\ [][NextParams]_vars

(* SpecGraph: a model under every combination of the options that decide   *)
(* the loss and the divergence estimator, driven by step with the bucket's *)
(* lengths and by both triggers.                                           *)
InitGraph ==
  \E c \in {x \in Configs : Constructible(x) /\ ~x.word_dropout /\ ~x.adamax} :
    InitModel(c, <<>>)

NextGraph ==
  \/ \E b \in BucketIds, forward_only \in BOOLEAN :
       Step(b, forward_only, encoder_size(b), decoder_size(b), decoder_size(b))
  \/ KlRateRise
  \/ LambdaHalve

SpecGraph == InitGraph /\ [][NextGraph]_vars

(* ============================== C1 ==================================== *)
StepLensMatch(c) ==
  /\ c.lens[1] = encoder_size(c.bucket_id)
  /\ c.lens[2] = decoder_size(c.bucket_id)
  /\ c.lens[3] = decoder_size(c.bucket_id)

ShapeMismatch(c) ==
  \/ c.op = "step" /\ ~StepLensMatch(c)
  \/ c.op = "encode_to_latent" /\ c.lens[1] # encoder_size(c.bucket_id)

(* C1: a step call whose encoder_inputs, decoder_inputs or target_weights  *)
(* length differs from the bucket's, in training or inference mode, and an *)
(* encode_to_latent call whose encoder_inputs length differs, raises       *)
(* ValueError without issuing session.run, and leaves global_step,         *)
(* kl_rate, Lambda, the parameters and their shadow as they were.          *)
C1_ShapeMismatchRaisesBeforeRun ==
  [][ShapeMismatch(call') =>
        /\ call'.raised = "ValueError"
        /\ ~call'.ran
        /\ call'.feed = {}
        /\ call'.fetch = <<>>
        /\ UNCHANGED model_state]_vars

C1_Witness ==
  /\ call.op = "step"
  /\ ~call.forward_only
  /\ call.lens[1] = encoder_size(call.bucket_id)
  /\ call.lens[2] = decoder_size(call.bucket_id)
  /\ call.lens[3] > decoder_size(call.bucket_id)
  /\ call.raised = "ValueError"
  /\ global_step = 1

(* ============================== C2 ==================================== *)
(* C2: in every construction configuration a step call with the bucket's   *)
(* lengths completes one evaluation: in training mode, on a model built    *)
(* with the backward pass, it fetches that bucket's update and returns     *)
(* (gradient norm, loss, divergence, None); in inference mode it returns   *)
(* (None, loss, divergence, outputs) with one output per decoder position  *)
(* of the bucket.                                                          *)
C2_StepCompletesInEveryConfiguration ==
  (/\ call.op = "step"
   /\ StepLensMatch(call)
   /\ (call.forward_only \/ ~cfg.forward_only))
  => /\ call.raised = "none"
     /\ call.ran
     /\ Len(call.ret) = 4
     /\ call.ret[2] = <<LossesT(call.bucket_id)>>
     /\ call.ret[3] = <<KLT(call.bucket_id)>>
     /\ ~call.forward_only =>
          /\ call.ret[1] = <<NormT(call.bucket_id)>>
          /\ call.ret[4] = <<NoneV>>
          /\ call.fetch[1] = UpdateT(call.bucket_id)
     /\ call.forward_only =>
          /\ call.ret[1] = <<NoneV>>
          /\ Len(call.ret[4]) = decoder_size(call.bucket_id)
          /\ \A l \in 1..decoder_size(call.bucket_id) :
               call.ret[4][l] = OutputsT(call.bucket_id, l - 1)

(* ============================== C3 ==================================== *)
(* C3: on a model with the latent bridge, encode_to_latent with the        *)
(* bucket's number of encoder inputs, for every bucket, fetches and        *)
(* returns that bucket's (mean, logvar) pair only, and feeds every         *)
(* placeholder the fetched expressions read, so the evaluation completes.  *)
C3_EncodeReturnsTheBucketsPair ==
  (/\ call.op = "encode_to_latent"
   /\ cfg.dnn_in_between
   /\ call.lens[1] = encoder_size(call.bucket_id))
  => /\ call.ran
     /\ call.raised = "none"
     /\ call.fetch = <<MeansT(call.bucket_id), LogvarsT(call.bucket_id)>>
     /\ Unfed(cfg, call.fetch, call.feed) = {}
     /\ call.ret = << <<MeansT(call.bucket_id)>>, <<LogvarsT(call.bucket_id)>> >>

(* ============================== C4 ==================================== *)
(* C4: a decode_from_latent call that reaches session.run feeds no encoder *)
(* placeholder, feeds the caller's mean into the bucket's means tensor,    *)
(* feeds the bucket's logvars tensor with the caller's logvars exactly     *)
(* when the model is probabilistic and with zeros otherwise, and returns   *)
(* one output per decoder position of the bucket; on a model that is not   *)
(* probabilistic the feed and the fetch list are the same for every        *)
(* logvars argument.                                                       *)
C4_DecodeFeedsLatentOnly ==
  (call.op = "decode_from_latent" /\ call.ran)
  => LET b == call.bucket_id IN
     /\ \A p \in call.feed : p[1][1] # "encoder"
     /\ \A p \in call.feed, q \in call.feed : p[1] = q[1] => p = q
     /\ <<MeansT(b), MeanArg(call.means)>> \in call.feed
     /\ cfg.probabilistic <=> <<LogvarsT(b), LogvarArg(call.logvars)>> \in call.feed
     /\ ~cfg.probabilistic <=> <<LogvarsT(b), Zeros2>> \in call.feed
     /\ call.raised = "none"
     /\ call.ret = << [l \in 1..decoder_size(b) |-> OutputsT(b, l - 1)] >>
     /\ ~cfg.probabilistic =>
          \A v \in LatentArgs :
            LET other == decode_from_latent(cfg, b, call.means, v, call.lens[2],
                                            call.lens[3])
            IN other.feed = call.feed /\ other.fetch = call.fetch

C4_Witness ==
  /\ call.op = "decode_from_latent"
  /\ ~cfg.probabilistic
  /\ call.raised = "none"
  /\ call.logvars = 2
  /\ Len(call.ret[1]) = 3

(* ============================== C5 ==================================== *)
(* C5: on a model with the latent bridge, a decode_from_latent call whose  *)
(* decoder_inputs or target_weights length differs from the bucket's       *)
(* decoder size raises ValueError without issuing session.run.             *)
C5_DecodeValidatesShapes ==
  (/\ call.op = "decode_from_latent"
   /\ cfg.dnn_in_between
   /\ \/ call.lens[2] # decoder_size(call.bucket_id)
      \/ call.lens[3] # decoder_size(call.bucket_id))
  => call.raised = "ValueError" /\ ~call.ran

(* ============================== C6 ==================================== *)
Column(rows, k) == [l \in 1..Len(rows) |-> rows[l][k]]

HasPad(tokens) == \E i \in 1..Len(tokens) : tokens[i] = PAD_ID

RECURSIVE StripTrailingPad(_)
StripTrailingPad(tokens) ==
  IF tokens # <<>> /\ tokens[Len(tokens)] = PAD_ID
  THEN StripTrailingPad(SubSeq(tokens, 1, Len(tokens) - 1))
  ELSE tokens

TimeMajor(rows, size) ==
  /\ Len(rows) = size
  /\ \A l \in 1..size : Len(rows[l]) = batch_size

(* C6: every batch has encoder_size time steps of batch_size entries.  For *)
(* an example whose input fits the bucket, its column read from the last   *)
(* time step to the first is the input followed by PAD up to encoder_size; *)
(* when the input holds no PAD id, the PAD entries are exactly the         *)
(* earliest time steps and stripping the trailing PAD of the un-reversed   *)
(* column gives the input back.  For an input longer than the bucket the   *)
(* column still has encoder_size entries and holds, reversed, the last     *)
(* encoder_size tokens of the input.                                       *)
C6_EncoderColumnsArePaddedThenReversed ==
  call.op = "get_batch" =>
    LET size == encoder_size(call.bucket_id)
        enc == call.batch.encoder_inputs
    IN /\ TimeMajor(enc, size)
       /\ \A k \in 1..batch_size :
            LET input == call.batch.sampled[k][1]
                n == Len(input)
                col == Column(enc, k)
                unreversed == [j \in 1..size |-> col[size + 1 - j]]
            IN /\ n <= size =>
                    /\ \A j \in 1..n : unreversed[j] = input[j]
                    /\ \A j \in (n + 1)..size : unreversed[j] = PAD_ID
                    /\ ~HasPad(input) =>
                         /\ StripTrailingPad(unreversed) = input
                         /\ \A l \in 1..size : col[l] = PAD_ID <=> l <= size - n
               /\ n > size =>
                    \A j \in 1..size : unreversed[j] = input[n - size + j]

C6_Witness ==
  /\ call.op = "get_batch"
  /\ call.bucket_id = 2
  /\ Len(call.batch.sampled[1][1]) = 1
  /\ Len(call.batch.sampled[2][1]) = 3
  /\ call.batch.encoder_inputs[1][1] = PAD_ID
  /\ call.batch.encoder_inputs[1][2] = 13

(* ============================== C7 ==================================== *)
(* C7: when every sampled output is shorter than decoder_size, the batch's *)
(* decoder_inputs has decoder_size time steps of batch_size entries, so    *)
(* the batch passes step's length checks for the bucket; each column       *)
(* starts with GO, continues with the example's output tokens in order     *)
(* and holds PAD at every later position.                                  *)
C7_DecoderColumnsAreGoOutputPad ==
  (/\ call.op = "get_batch"
   /\ \A k \in 1..batch_size :
        Len(call.batch.sampled[k][2]) < decoder_size(call.bucket_id))
  => LET size == decoder_size(call.bucket_id)
         dec == call.batch.decoder_inputs
     IN /\ TimeMajor(dec, size)
        /\ StepShapeError(call.bucket_id, Len(call.batch.encoder_inputs), Len(dec),
                          Len(call.batch.target_weights)) = NoneV
        /\ \A k \in 1..batch_size :
             LET output == call.batch.sampled[k][2] IN
             /\ dec[1][k] = GO_ID
             /\ \A j \in 1..Len(output) : dec[1 + j][k] = output[j]
             /\ \A l \in (Len(output) + 2)..size : dec[l][k] = PAD_ID

C7_Witness ==
  /\ call.op = "get_batch"
  /\ call.bucket_id = 2
  /\ Len(call.batch.sampled[1][2]) = 2
  /\ Len(call.batch.sampled[2][2]) = 0
  /\ call.batch.decoder_inputs[3][1] = 22
  /\ call.batch.decoder_inputs[3][2] = PAD_ID

(* ============================== C8 ==================================== *)
(* C8: in every batch, for every example and every position t (0-based):   *)
(* the weight is 0 at t = decoder_size - 1; before that it is 0 exactly    *)
(* when the next decoder input is PAD, and 1 otherwise.  For an example    *)
(* whose output holds no PAD id and is shorter than decoder_size, the      *)
(* weight is 0 exactly when t >= len(output) or t is the last index.       *)
C8_WeightsMaskPaddingTargets ==
  call.op = "get_batch" =>
    LET size == decoder_size(call.bucket_id)
        dec == call.batch.decoder_inputs
        weights == call.batch.target_weights
    IN /\ TimeMajor(weights, size)
       /\ \A k \in 1..batch_size : \A t \in 0..(size - 1) :
            LET output == call.batch.sampled[k][2] IN
            /\ weights[t + 1][k] \in {0, 1}
            /\ t = size - 1 => weights[t + 1][k] = 0
            /\ t < size - 1 => (weights[t + 1][k] = 0 <=> dec[t + 2][k] = PAD_ID)
            /\ (~HasPad(output) /\ Len(output) < size) =>
                 (weights[t + 1][k] = 0 <=> (t >= Len(output) \/ t = size - 1))

C8_Witness ==
  /\ call.op = "get_batch"
  /\ call.bucket_id = 2
  /\ call.batch.sampled[1][2] = <<21, PAD_ID, 23>>
  /\ Len(call.batch.sampled[2][2]) = 1
  /\ Column(call.batch.target_weights, 1) = <<1, 0, 0>>
  /\ Column(call.batch.target_weights, 2) = <<1, 0, 0>>

(* ============================== C9 ==================================== *)
CompletedTraining(c) == c.op = "step" /\ ~c.forward_only /\ c.raised = "none"

(* C9: global_step starts at 0 and always equals the number of completed   *)
(* training-mode step calls; such a call adds exactly 1, with or without   *)
(* the grouped moving-average update, and every other call or trigger      *)
(* leaves it as it was.                                                    *)
C9_GlobalStepCountsTrainingSteps ==
  /\ global_step = 0
  /\ [](global_step = hist.steps)
  /\ [][IF CompletedTraining(call')
        THEN global_step' = global_step + 1
        ELSE global_step' = global_step]_vars

C9_Witness ==
  /\ global_step = 2
  /\ cfg.adamax
  /\ shadow = 2
  /\ call.op = "step"
  /\ call.forward_only
  /\ call.raised = "none"

(* ============================== C10 =================================== *)
RECURSIVE Pow2(_)
Pow2(n) == IF n = 0 THEN 1 ELSE 2 * Pow2(n - 1)

(* C10: kl_rate starts at 0 and always equals kl_rate_rise_factor times    *)
(* the number of rise triggers fired; Lambda always equals its initial     *)
(* value divided by 2 to the number of halving triggers fired; a           *)
(* transition that is not the rise trigger leaves kl_rate as it was, and   *)
(* one that is not the halving trigger leaves Lambda as it was.            *)
C10_AnnealingChangesOnlyByTriggers ==
  /\ kl_rate = 0
  /\ Lambda = [num |-> Lambda0, den |-> 1]
  /\ [](kl_rate = kl_rate_rise_factor * hist.rises)
  /\ [](Lambda.num * Pow2(hist.halvings) = Lambda0 * Lambda.den)
  /\ [][/\ call'.op # "kl_rate_rise" => kl_rate' = kl_rate
        /\ call'.op # "Lambda_divide_by_two" => Lambda' = Lambda
        /\ call'.op = "kl_rate_rise" => kl_rate' >= kl_rate]_vars

C10_Witness ==
  /\ hist.rises = 2
  /\ hist.halvings = 2
  /\ kl_rate = 2 * kl_rate_rise_factor
  /\ Lambda.den = 4
  /\ global_step = 1
  /\ call.op = "step"
  /\ call.raised = "none"

(* ============================== C11 =================================== *)
(* The variables are the embedding tables as last assigned, params (the    *)
(* updates applied to every trainable variable, both tables included) and  *)
(* shadow (the moving averages).                                           *)
EmbeddingLoads == {"enc_embedding", "dec_embedding"}

(* C11 as stated: every parameter, the embedding tables included, changes  *)
(* only in a completed training-mode step.                                 *)
C11_OnlyTrainingWritesParameters ==
  [][(params' # params \/ shadow' # shadow \/ embedding' # embedding)
       => CompletedTraining(call')]_vars

(* C11: the tables __init__ built never change; the trainable variables    *)
(* and their moving averages change only in a completed training-mode      *)
(* step, which does update them; an embedding table changes otherwise only *)
(* when its own assign operation is run, which leaves the other table, the *)
(* trainable variables and the moving averages as they were. Inference-    *)
(* mode step, encode_to_latent, decode_from_latent, get_batch and every    *)
(* call that raises leave all of them unchanged.                           *)
C11_ParametersWrittenByUpdateOrLoad ==
  [][/\ graph' = graph
     /\ (params' # params \/ shadow' # shadow) => CompletedTraining(call')
     /\ CompletedTraining(call') => params' = params + 1
     /\ (CompletedTraining(call') /\ cfg.adamax) => shadow' = shadow + 1
     /\ embedding' # embedding => call'.op \in EmbeddingLoads
     /\ \A table \in EmbeddingLoads :
          call'.op # table => embedding'[table] = embedding[table]
     /\ (call'.op \in {"encode_to_latent", "decode_from_latent", "get_batch"}
           \/ (call'.op = "step" /\ (call'.forward_only \/ call'.raised # "none")))
          => <<embedding, params, shadow>>' = <<embedding, params, shadow>>]_vars

C11_Witness ==
  /\ embedding.enc_embedding = 1
  /\ embedding.dec_embedding = 0
  /\ params = 2
  /\ shadow = 2
  /\ call.op = "step"
  /\ call.forward_only
  /\ call.raised = "none"
  /\ call.ran

(* ============================== C12 =================================== *)
Reconstruction(b) == [rate |-> "one", expr |-> LossesT(b)]

Divergence(b, rate) == [rate |-> rate, expr |-> KLT(b)]

BackwardLoss(b) == <<graph.gradient_norms[b].of, graph.updates[b].of>>

(* C12: in a model built with a backward pass, the loss that every         *)
(* bucket's gradient norm and update are taken of is the reconstruction    *)
(* loss plus kl_rate times the divergence when probabilistic and           *)
(* annealing, the reconstruction loss plus the divergence when             *)
(* probabilistic and not annealing, and the reconstruction loss alone when *)
(* not probabilistic, annealing or not; a forward_only model has no        *)
(* gradient-norm and no update expression.                                 *)
C12_LossComposition ==
  /\ ~cfg.forward_only =>
       /\ DOMAIN graph.gradient_norms = BucketIds
       /\ DOMAIN graph.updates = BucketIds
       /\ \A b \in BucketIds :
            /\ graph.gradient_norms[b].expr = NormT(b)
            /\ graph.updates[b].expr = UpdateT(b)
            /\ (cfg.probabilistic /\ cfg.annealing) =>
                 BackwardLoss(b) = << <<Reconstruction(b), Divergence(b, "kl_rate")>>,
                                      <<Reconstruction(b), Divergence(b, "kl_rate")>> >>
            /\ (cfg.probabilistic /\ ~cfg.annealing) =>
                 BackwardLoss(b) = << <<Reconstruction(b), Divergence(b, "one")>>,
                                      <<Reconstruction(b), Divergence(b, "one")>> >>
            /\ ~cfg.probabilistic =>
                 BackwardLoss(b) = << <<Reconstruction(b)>>, <<Reconstruction(b)>> >>
  /\ cfg.forward_only => (graph.gradient_norms = <<>> /\ graph.updates = <<>>)

C12_Witness ==
  /\ cfg.probabilistic
  /\ cfg.annealing
  /\ ~cfg.forward_only
  /\ kl_rate = kl_rate_rise_factor
  /\ CompletedTraining(call)
  /\ call.bucket_id = 2
  /\ UpdateT(2) \in {call.fetch[i] : i \in 1..Len(call.fetch)}
  /\ graph.updates[2].of[2] = Divergence(2, "kl_rate")

(* ============================== C13 =================================== *)
Estimators(g) ==
  {g.kl_f} \cup {g.KL_divergences[b].estimator : b \in DOMAIN g.KL_divergences}

(* C13: the divergence estimator is the closed-form one exactly when the   *)
(* model was built with annealing and without lower_bound_KL, and the      *)
(* lower-bounded one in the three other cases; every bucket's divergence   *)
(* of a model with the latent bridge uses that one estimator; and no step, *)
(* kl_rate rise or Lambda halving changes either.                          *)
C13_EstimatorFixedAtConstruction ==
  /\ []((cfg.annealing /\ ~cfg.lower_bound_KL) <=> graph.kl_f = "KL_divergence")
  /\ [](~(cfg.annealing /\ ~cfg.lower_bound_KL) <=> graph.kl_f = "lower_bounded_kl_f")
  /\ [](cfg.dnn_in_between =>
          /\ DOMAIN graph.KL_divergences = BucketIds
          /\ \A b \in BucketIds : graph.KL_divergences[b].estimator = graph.kl_f)
  /\ [][Estimators(graph') = Estimators(graph) /\ cfg' = cfg]_vars

C13_Witness ==
  /\ ~cfg.annealing
  /\ ~cfg.lower_bound_KL
  /\ cfg.dnn_in_between
  /\ hist.rises = 1
  /\ hist.halvings = 1
  /\ Lambda.den = 2
  /\ CompletedTraining(call)
  /\ Estimators(graph) = {"lower_bounded_kl_f"}

====
